---- MODULE Spec2Model ----
(***************************************************************************)
(* A model of the wafer-core blocks: the per-IP rate limiter               *)
(* (blocks/rate_limit.rs), the static file server (blocks/web.rs), the     *)
(* authentication block (blocks/auth.rs), the role check (blocks/iam.rs)   *)
(* and the admin-pipe chain (chains/mod.rs) with its infrastructure        *)
(* blocks.  Strings the code takes apart (paths, headers, role lists) are   *)
(* sequences of one-character strings.                                     *)
(***************************************************************************)
EXTENDS Integers, Sequences, FiniteSets, TLC

(***************************************************************************)
(* State                                                                   *)
(***************************************************************************)
\* the rate limiter
VARIABLES
    rl_config,      \* node config: "max_requests" (u32) and "window_seconds" (u64), or Unset
    buckets,        \* RateLimitBlock.buckets: address -> RateBucket (or NoBucket)
    lock,           \* holder of the parking_lot::Mutex around buckets, 0 = free
    clock,          \* what Instant::now() returns, in ticks
    rl,             \* per worker thread: position in handle() and its locals
    started,        \* requests handed to handle() so far
    win             \* history: per address, the current fixed window as an observer counts
                    \* it, and the times of all admitted requests

\* the static file server
VARIABLES
    fs,             \* the file system: absolute path -> node
    web_config,     \* WebConfig of the node
    web_req,        \* the request handled: path and action
    web_resp        \* the Result_ of handle() for it

\* the auth block and the role check
VARIABLES
    msg,            \* the Message: auth_token cookie, Authorization header, auth.* meta
    ctx,            \* the Context: which services exist, and the node config "role"
    auth,           \* AuthBlock::handle: position, locals, Result_
    iam             \* IAMBlock::handle: position, locals, Result_

\* the admin-pipe chain
VARIABLES
    chain           \* one request's run through the chain: the request, the node reached,
                    \* the infrastructure blocks' config and state, the results so far

rlVars == <<rl_config, buckets, lock, clock, rl, started, win>>
webVars == <<fs, web_config, web_req, web_resp>>
authVars == <<msg, ctx, auth, iam>>
vars == <<rlVars, webVars, authVars, chain>>

(***************************************************************************)
(* Bounds of the model.                                                    *)
(***************************************************************************)
\* clock ticks the model lets pass
MaxTime == 3
\* requests the rate limiter is handed in one behaviour
MaxRequests == 3
\* largest configured max_requests the model tries
MaxMax == 2

\* clock ticks per second: Instant has sub-second resolution, as_secs() floors
TicksPerSec == 2

Min(a, b) == IF a < b THEN a ELSE b

(***************************************************************************)
(* Strings as sequences of characters: the std::str operations the blocks  *)
(* use.                                                                    *)
(***************************************************************************)
RECURSIVE SplitAny(_, _)
\* str::split on any character of seps: "" gives one empty piece
SplitAny(s, seps) ==
    IF \A k \in 1..Len(s) : s[k] \notin seps
    THEN <<s>>
    ELSE LET i == CHOOSE k \in 1..Len(s) :
                     s[k] \in seps /\ \A j \in 1..(k - 1) : s[j] \notin seps
         IN <<SubSeq(s, 1, i - 1)>> \o SplitAny(SubSeq(s, i + 1, Len(s)), seps)

\* str::split(ch)
Split(s, ch) == SplitAny(s, {ch})

RECURSIVE Join(_, _)
\* [&str]::join(sep)
Join(parts, sep) ==
    IF parts = <<>> THEN <<>>
    ELSE IF Len(parts) = 1 THEN parts[1]
    ELSE parts[1] \o sep \o Join(Tail(parts), sep)

\* str::starts_with
StartsWith(s, pre) == Len(s) >= Len(pre) /\ SubSeq(s, 1, Len(pre)) = pre

\* what str::strip_prefix returns inside Some(..)
StripPrefix(s, pre) == SubSeq(s, Len(pre) + 1, Len(s))

RECURSIVE TrimStartMatches(_, _)
\* str::trim_start_matches(ch)
TrimStartMatches(s, ch) ==
    IF s # <<>> /\ s[1] = ch THEN TrimStartMatches(Tail(s), ch) ELSE s

\* str::trim: leading and trailing white space off
Whitespace == {" "}
RECURSIVE TrimEnd(_)
TrimEnd(s) ==
    IF s # <<>> /\ s[Len(s)] \in Whitespace THEN TrimEnd(SubSeq(s, 1, Len(s) - 1)) ELSE s
RECURSIVE TrimStart(_)
TrimStart(s) ==
    IF s # <<>> /\ s[1] \in Whitespace THEN TrimStart(Tail(s)) ELSE s
Trim(s) == TrimEnd(TrimStart(s))

\* every string over alphabet of length at most n
StringsUpTo(alphabet, n) == UNION {[1..k -> alphabet] : k \in 0..n}

(***************************************************************************)
(* Rate limiter: blocks/rate_limit.rs                                      *)
(***************************************************************************)

\* worker threads of the host runtime calling handle() on the singleton block
Threads == {1, 2}
\* msg.remote_addr(): two clients, and the empty (unresolvable) address
Addrs == {"a", "b"}
NoAddr == ""
\* the keys the HashMap can hold: msg.remote_addr() is any string
Keys == Addrs \cup {NoAddr}
NoBucket == [count |-> -1, window_start |-> -1]
NoWin == [start |-> -1, n |-> 0, adm |-> 0, times |-> <<>>]
NoResult == [action |-> "none", status |-> 0, retry_after |-> -1, limit |-> -1, remaining |-> -1]

\* RateLimitBlock::new(): the defaults, used when the config does not override
DefaultMaxRequests == 100
DefaultWindowSecs == 60

\* a config key that is absent or does not parse
Unset == -1

\* handle(), lines 43-46: config "max_requests" or the default
Max == IF rl_config.max_requests = Unset THEN DefaultMaxRequests ELSE rl_config.max_requests

\* handle(), lines 48-51: config "window_seconds" or the default
WindowSecs == IF rl_config.window_seconds = Unset THEN DefaultWindowSecs ELSE rl_config.window_seconds

\* Duration::from_secs(window_secs), in ticks
Window == WindowSecs * TicksPerSec

\* Instant::duration_since: saturates at zero
DurationSince(later, earlier) == IF later >= earlier THEN later - earlier ELSE 0

IdleThread == [pc |-> "idle", ip |-> NoAddr, now |-> 0, nth |-> 0, fresh |-> "no", result |-> NoResult]

RLInit ==
    /\ rl_config \in [max_requests : {Unset} \cup 0..MaxMax, window_seconds : {Unset, 0, 1}]
    /\ buckets = [a \in Keys |-> NoBucket]
    /\ lock = 0
    /\ clock = 0
    /\ rl = [t \in Threads |-> IdleThread]
    /\ started = 0
    /\ win = [a \in Keys |-> NoWin]

\* self.buckets.lock() can be taken
LockFreeNoMutex == TRUE
LockFree == lock = 0

\* now.duration_since(bucket.window_start) > window
ExpiredAtOrAfter(now, b) == DurationSince(now, b.window_start) >= Window
Expired(now, b) == DurationSince(now, b.window_start) > Window

\* bucket.count > max
OverLimitOffByOne(count, max) == count > max + 1
OverLimit(count, max) == count > max

\* line 55: client_ip.is_empty()
NoClientAddrNever(ip) == FALSE
NoClientAddr(ip) == ip = NoAddr

\* handle(), lines 43-57: read the config and the address; no address, no limiting
RLStart(t, ip) ==
    /\ rl[t].pc \in {"idle", "done"}
    /\ started < MaxRequests
    /\ started' = started + 1
    /\ IF NoClientAddr(ip)
       THEN rl' = [rl EXCEPT ![t] = [IdleThread EXCEPT !.pc = "done", !.ip = ip,
                       !.result = [NoResult EXCEPT !.action = "continue"]]]
       ELSE rl' = [rl EXCEPT ![t] = [IdleThread EXCEPT !.pc = "lock", !.ip = ip]]
    /\ UNCHANGED <<rl_config, buckets, lock, clock, win>>
    /\ UNCHANGED <<webVars, authVars, chain>>

\* line 59: self.buckets.lock()
RLLock(t) ==
    /\ rl[t].pc = "lock"
    /\ LockFree
    /\ lock' = t
    /\ rl' = [rl EXCEPT ![t].pc = "entry"]
    /\ UNCHANGED <<rl_config, buckets, clock, started, win>>
    /\ UNCHANGED <<webVars, authVars, chain>>

\* lines 60-65: Instant::now(), buckets.entry(ip).or_insert(..)
RLEntry(t) ==
    /\ rl[t].pc = "entry"
    /\ LET ip == rl[t].ip
           w == win[ip]
           over == w.start >= 0 /\ clock - w.start > Window
           w2 == IF w.start < 0 \/ over
                 THEN [start |-> clock, n |-> 1, adm |-> 0, times |-> w.times]
                 ELSE [w EXCEPT !.n = w.n + 1]
       IN /\ buckets' = IF buckets[ip] = NoBucket
                        THEN [buckets EXCEPT ![ip] = [count |-> 0, window_start |-> clock]]
                        ELSE buckets
          /\ win' = [win EXCEPT ![ip] = w2]
          /\ rl' = [rl EXCEPT ![t].pc = "expiry", ![t].now = clock, ![t].nth = w2.n,
                              ![t].fresh = IF over THEN "expired"
                                           ELSE IF w.start < 0 THEN "created" ELSE "no"]
    /\ UNCHANGED <<rl_config, lock, clock, started>>
    /\ UNCHANGED <<webVars, authVars, chain>>

\* lines 67-71: reset the window if it has expired
RLExpiry(t) ==
    /\ rl[t].pc = "expiry"
    /\ LET ip == rl[t].ip
       IN buckets' = IF Expired(rl[t].now, buckets[ip])
                     THEN [buckets EXCEPT ![ip] = [count |-> 0, window_start |-> rl[t].now]]
                     ELSE buckets
    /\ rl' = [rl EXCEPT ![t].pc = "incr"]
    /\ UNCHANGED <<rl_config, lock, clock, started, win>>
    /\ UNCHANGED <<webVars, authVars, chain>>

\* line 73: bucket.count += 1
RLIncr(t) ==
    /\ rl[t].pc = "incr"
    /\ buckets' = [buckets EXCEPT ![rl[t].ip].count = @ + 1]
    /\ rl' = [rl EXCEPT ![t].pc = "compare"]
    /\ UNCHANGED <<rl_config, lock, clock, started, win>>
    /\ UNCHANGED <<webVars, authVars, chain>>

\* lines 76-79: window.checked_sub(elapsed).unwrap_or(Duration::ZERO).as_secs()
RetryAfterRoundedUp(window, elapsed) ==
    IF window >= elapsed THEN (window - elapsed + TicksPerSec - 1) \div TicksPerSec ELSE 0
RetryAfter(window, elapsed) ==
    IF window >= elapsed THEN (window - elapsed) \div TicksPerSec ELSE 0

\* line 92: max - bucket.count
RemainingBeforeIncrement(max, count) == max - (count - 1)
Remaining(max, count) == max - count

\* lines 75-102: 429 with Retry-After when over the limit, else continue with the headers
RLCompare(t) ==
    /\ rl[t].pc = "compare"
    /\ LET ip == rl[t].ip
           b == buckets[ip]
           over == OverLimit(b.count, Max)
           elapsed == DurationSince(rl[t].now, b.window_start)
           retry == RetryAfter(Window, elapsed)
       IN /\ rl' = [rl EXCEPT ![t].pc = "ret",
                       ![t].result =
                          IF over
                          THEN [action |-> "error", status |-> 429, retry_after |-> retry,
                                limit |-> Max, remaining |-> 0]
                          ELSE [action |-> "continue", status |-> 0, retry_after |-> -1,
                                limit |-> Max, remaining |-> Remaining(Max, b.count)]]
          /\ win' = [win EXCEPT ![ip].adm = IF over THEN @ ELSE @ + 1,
                                 ![ip].times = IF over THEN @ ELSE Append(@, rl[t].now)]
    /\ UNCHANGED <<rl_config, buckets, lock, clock, started>>
    /\ UNCHANGED <<webVars, authVars, chain>>

\* handle() returns: the MutexGuard goes out of scope
RLReturn(t) ==
    /\ rl[t].pc = "ret"
    /\ lock' = IF lock = t THEN 0 ELSE lock
    /\ rl' = [rl EXCEPT ![t].pc = "done"]
    /\ UNCHANGED <<rl_config, buckets, clock, started, win>>
    /\ UNCHANGED <<webVars, authVars, chain>>

\* time passes
Tick ==
    /\ clock < MaxTime
    /\ clock' = clock + 1
    /\ UNCHANGED <<rl_config, buckets, lock, rl, started, win>>
    /\ UNCHANGED <<webVars, authVars, chain>>

RLNext ==
    \/ \E t \in Threads, ip \in Keys : RLStart(t, ip)
    \/ \E t \in Threads : RLLock(t)
    \/ \E t \in Threads : RLEntry(t)
    \/ \E t \in Threads : RLExpiry(t)
    \/ \E t \in Threads : RLIncr(t)
    \/ \E t \in Threads : RLCompare(t)
    \/ \E t \in Threads : RLReturn(t)
    \/ Tick


(***************************************************************************)
(* Claims about the rate limiter                                           *)
(***************************************************************************)
Responded(t) == rl[t].pc \in {"ret", "done"} /\ rl[t].ip # NoAddr

\* C1 (as stated): within one window the (max+1)-th request from an address is
\* rejected with 429 and X-RateLimit-Remaining = 0, and the first request after
\* the window has expired always continues and leaves the bucket count at 1,
\* for every configured max.
C1_AsStated ==
    \A t \in Threads :
        /\ Responded(t) /\ rl[t].nth = Max + 1
              => rl[t].result.status = 429 /\ rl[t].result.remaining = 0
        /\ rl[t].pc = "ret" /\ rl[t].fresh = "expired"
              => rl[t].result.action = "continue" /\ buckets[rl[t].ip].count = 1

\* C1 (amended): the (max+1)-th request of a window is rejected with 429 and
\* X-RateLimit-Remaining = 0 for every max; the first request after expiry
\* always leaves the bucket count at 1, and continues when max >= 1 (with
\* max = 0 it is itself the (max+1)-th request of the new window: 429).
C1_FirstAfterExpiry ==
    \A t \in Threads :
        /\ Responded(t) /\ rl[t].nth = Max + 1
              => rl[t].result.status = 429 /\ rl[t].result.remaining = 0
        /\ rl[t].pc = "ret" /\ rl[t].fresh = "expired"
              => /\ buckets[rl[t].ip].count = 1
                 /\ Max >= 1 => rl[t].result.action = "continue"
                 /\ Max = 0 => rl[t].result.status = 429

\* a request just admitted as the first of a new window, after an earlier
\* request was rejected as the (max+1)-th of its window
C1_Witness ==
    \E t, u \in Threads :
        /\ rl[t].pc = "ret" /\ rl[t].fresh = "expired" /\ Max >= 1
        /\ rl[t].result.action = "continue" /\ buckets[rl[t].ip].count = 1
        /\ u # t /\ rl[u].pc = "done" /\ rl[u].ip = rl[t].ip
        /\ rl[u].nth = Max + 1 /\ rl[u].result.status = 429

\* C2: the expiry check, reset, increment and comparison run as one critical
\* section: whenever no request is inside it, each bucket's count is the number
\* N of requests the address made in the window and exactly min(N, max) of
\* them were admitted.
C2_NoLostUpdate ==
    lock = 0 =>
        \A a \in Addrs :
            buckets[a] # NoBucket =>
                /\ buckets[a].count = win[a].n
                /\ win[a].adm = Min(win[a].n, Max)

\* three requests of both threads from one address in one window, two admitted
C2_Witness ==
    /\ lock = 0 /\ Max = 2
    /\ \E a \in Addrs :
          /\ win[a].n = 3 /\ win[a].adm = 2 /\ buckets[a].count = 3
          /\ \A t \in Threads : rl[t].pc = "done" /\ rl[t].ip = a

\* thread t returns from an admitted request, still holding the lock
Admitted(t) == rl[t].pc = "ret" /\ rl[t].result.action = "continue"
\* thread t returns a 429, still holding the lock
Rejected(t) == rl[t].pc = "ret" /\ rl[t].result.status = 429

\* C14: an admitted request gets X-RateLimit-Limit = max and
\* X-RateLimit-Remaining = max - count with count the bucket's count after the
\* increment; it is never negative, and for the n-th request of a window it is
\* max - n: one less with each admitted request, 0 for the max-th.
C14_Remaining ==
    \A t \in Threads :
        Admitted(t) =>
            /\ rl[t].result.limit = Max
            /\ rl[t].result.remaining = Max - buckets[rl[t].ip].count
            /\ rl[t].result.remaining = Max - rl[t].nth
            /\ rl[t].result.remaining >= 0
            /\ rl[t].nth = Max => rl[t].result.remaining = 0

\* the second request of a window under max = 2 is admitted with 0 remaining,
\* after the first was admitted with 1 remaining
C14_Witness ==
    \E t, u \in Threads :
        /\ Admitted(t) /\ Max = 2 /\ rl[t].nth = 2 /\ rl[t].result.remaining = 0
        /\ u # t /\ rl[u].pc = "done" /\ rl[u].ip = rl[t].ip
        /\ rl[u].nth = 1 /\ rl[u].result.remaining = 1

\* ticks left of the window of thread t's address, at the time t read the clock
WindowLeft(t) == Window - (rl[t].now - win[rl[t].ip].start)

\* C15: a rejected request gets Retry-After = the window length minus the time
\* since the bucket's window_start, floored at zero, in whole seconds (rounded
\* down); so 0 <= Retry-After <= window_seconds on every 429.
C15_RetryAfter ==
    \A t \in Threads :
        Rejected(t) =>
            /\ win[rl[t].ip].start = buckets[rl[t].ip].window_start
            /\ WindowLeft(t) >= 0
            /\ rl[t].result.retry_after * TicksPerSec <= WindowLeft(t)
            /\ WindowLeft(t) < (rl[t].result.retry_after + 1) * TicksPerSec
            /\ rl[t].result.retry_after >= 0
            /\ rl[t].result.retry_after <= WindowSecs

\* a 429 half a second into a one-second window: Retry-After is 0
C15_Witness ==
    \E t \in Threads :
        /\ Rejected(t) /\ WindowSecs = 1 /\ WindowLeft(t) = 1
        /\ rl[t].result.retry_after = 0

\* C19: with max and window fixed, for every client address any time interval
\* no longer than the window holds at most 2*max admitted requests (a burst
\* across one window boundary), and a single window (between two resets of the
\* bucket) at most max.
C19_BurstBound ==
    \A a \in Addrs :
        LET times == win[a].times
        IN /\ win[a].adm <= Max
           /\ \A i \in 1..Len(times) : \A j \in i..Len(times) :
                 /\ times[i] <= times[j]
                 /\ times[j] - times[i] <= Window => j - i + 1 <= 2 * Max

\* two admitted requests of one address less than a window apart, the first
\* as the last of its window and the second as the first of the next
C19_Witness ==
    \E a \in Addrs :
        LET times == win[a].times
        IN /\ Max = 2 /\ lock = 0
           /\ Len(times) = 3 /\ times[3] - times[2] <= Window
           /\ times[2] < win[a].start /\ win[a].adm = 1 /\ buckets[a].count = 1

\* a request with no client address is the only thing thread t did in a step
HandledNoAddr(t) == rl'[t] # rl[t] /\ rl'[t].ip = NoAddr /\ rl'[t].pc # "idle"

\* C13: a request with an empty client address always continues (never 429,
\* whatever max and window are), takes no lock, and leaves the bucket map as it
\* was: no bucket is created under the empty address and no count changes.
C13_NoAddressNoLimit ==
    /\ [](/\ \A t \in Threads :
               rl[t].ip = NoAddr /\ rl[t].pc # "idle"
                  => rl[t].pc = "done" /\ rl[t].result = [NoResult EXCEPT !.action = "continue"]
           /\ buckets[NoAddr] = NoBucket)
    /\ [][\A t \in Threads : HandledNoAddr(t) => buckets' = buckets /\ lock' = lock]_vars

\* a request with no address continued while max is 0 and a request with an
\* address was rejected
C13_Witness ==
    \E t, u \in Threads :
        /\ rl[t].pc = "done" /\ rl[t].ip = NoAddr /\ rl[t].result.action = "continue"
        /\ Max = 0 /\ rl[u].pc = "done" /\ rl[u].ip # NoAddr /\ rl[u].result.status = 429

(***************************************************************************)
(* Static file server: blocks/web.rs                                       *)
(***************************************************************************)

\* longest request path the model tries
MaxPathLen == 4

\* the characters request paths are made of
PathChars == {"/", ".", "a", "d"}

\* WebBlock::new(): default max-ages
DefaultCacheMaxAge == 3600
DefaultImmutableMaxAge == 31536000

\* file system nodes; a symlink holds an absolute target
Absent == [kind |-> "absent", target |-> <<>>]
File == [kind |-> "file", target |-> <<>>]
Dir == [kind |-> "dir", target |-> <<>>]
Link(t) == [kind |-> "link", target |-> t]

\* the paths of the modelled file system, as sequences of names
PRoot == << <<"r">> >>
PRootA == << <<"r">>, <<"a">> >>
PRootD == << <<"r">>, <<"d">> >>
PRootDA == << <<"r">>, <<"d">>, <<"a">> >>
PRootDot == << <<"r">>, <<".", "a">> >>
PRootLink == << <<"w">> >>
POut == << <<"o">> >>
POutS == << <<"o">>, <<"s">> >>
POutA == << <<"o">>, <<"a">> >>
PMissing == << <<"m">> >>
FsPaths == {PRoot, PRootA, PRootD, PRootDA, PRootDot, PRootLink, POut, POutS, POutA}

\* the layouts the model tries: a web root /r (also reached through the
\* symlink /w) next to a directory /o that is not part of it
Layouts ==
    {f \in [FsPaths -> {Absent, File, Dir, Link(POutS), Link(POut), Link(PRoot)}] :
        /\ f[PRoot] = Dir /\ f[POut] = Dir /\ f[POutS] = File /\ f[POutA] = File
        /\ f[PRootLink] = Link(PRoot)
        /\ f[PRootA] \in {Absent, File, Link(POutS)}
        /\ f[PRootD] \in {Absent, Dir, Link(POut)}
        /\ f[PRootDA] \in {Absent, File, Link(POutS)}
        /\ f[PRootD] # Dir => f[PRootDA] = Absent
        /\ f[PRootDot] \in {Absent, File}}

Lookup(path) == IF path \in FsPaths THEN fs[path] ELSE Absent

NoPath == [ok |-> FALSE, path |-> <<>>]
Parent(path) == IF path = <<>> THEN <<>> ELSE SubSeq(path, 1, Len(path) - 1)

\* symlinks followed in one resolution before ELOOP
MaxLinks == 3

RECURSIVE Resolve(_, _, _)
\* realpath: walk the components rest from the canonical directory done
Resolve(done, rest, fuel) ==
    IF rest = <<>> THEN [ok |-> TRUE, path |-> done]
    ELSE IF Head(rest) = <<".", ".">> THEN Resolve(Parent(done), Tail(rest), fuel)
    ELSE LET p == Append(done, Head(rest))
             node == Lookup(p)
         IN CASE node.kind = "absent" -> NoPath
              [] node.kind = "file" ->
                    IF Tail(rest) = <<>> THEN [ok |-> TRUE, path |-> p] ELSE NoPath
              [] node.kind = "dir" -> Resolve(p, Tail(rest), fuel)
              [] OTHER ->
                    IF fuel = 0 THEN NoPath
                    ELSE Resolve(<<>>, node.target \o Tail(rest), fuel - 1)

\* std::fs::canonicalize
Canonicalize(path) == Resolve(<<>>, path, MaxLinks)

\* Path::components of a relative path string: empty and "." pieces dropped
Components(str) == SelectSeq(Split(str, "/"), LAMBDA c : c # <<>> /\ c # <<".">>)

\* Path::join with a relative path
PathJoin(base, str) == base \o Components(str)

\* Path::starts_with: whole components
PathStartsWith(path, base) == Len(path) >= Len(base) /\ SubSeq(path, 1, Len(base)) = base

\* Path::is_dir, Path::exists: both follow symlinks
IsDir(path) == LET r == Canonicalize(path) IN r.ok /\ Lookup(r.path).kind = "dir"
Exists(path) == Canonicalize(path).ok

\* std::fs::read: the file the bytes come from, named by its canonical path
NoData == [ok |-> FALSE, from |-> <<>>]
FsRead(path) ==
    LET r == Canonicalize(path)
    IN IF r.ok /\ Lookup(r.path).kind = "file" THEN [ok |-> TRUE, from |-> r.path] ELSE NoData

\* the loop of clean_path over the segments
RECURSIVE CleanPartsDotDotKept(_, _)
CleanPartsDotDotKept(segs, parts) ==
    IF segs = <<>> THEN parts
    ELSE LET seg == Head(segs)
         IN IF seg = <<>> \/ seg = <<".">> THEN CleanPartsDotDotKept(Tail(segs), parts)
            ELSE IF seg = <<".", ".">> /\ parts # <<>>
            THEN CleanPartsDotDotKept(Tail(segs), Parent(parts))
            ELSE CleanPartsDotDotKept(Tail(segs), Append(parts, seg))
RECURSIVE CleanParts(_, _)
CleanParts(segs, parts) ==
    IF segs = <<>> THEN parts
    ELSE LET seg == Head(segs)
         IN IF seg = <<>> \/ seg = <<".">> THEN CleanParts(Tail(segs), parts)
            ELSE IF seg = <<".", ".">> THEN CleanParts(Tail(segs), Parent(parts))
            ELSE CleanParts(Tail(segs), Append(parts, seg))

\* clean_path
clean_path(p) == <<"/">> \o Join(CleanParts(Split(p, "/"), <<>>), <<"/">>)

\* Path::extension of the last component, lowercased: none for a leading dot alone
Extension(path) ==
    LET name == IF path = <<>> THEN <<>> ELSE path[Len(path)]
        dots == {k \in 2..Len(name) : name[k] = "."}
    IN IF dots = {} THEN <<>>
       ELSE LET k == CHOOSE d \in dots : \A e \in dots : e <= d
            IN SubSeq(name, k + 1, Len(name))

\* Path::file_stem of the last component
FileStem(path) ==
    LET name == IF path = <<>> THEN <<>> ELSE path[Len(path)]
        dots == {k \in 2..Len(name) : name[k] = "."}
    IN IF dots = {} THEN name
       ELSE LET k == CHOOSE d \in dots : \A e \in dots : e <= d
            IN SubSeq(name, 1, k - 1)

\* mime_for_ext: the table's rows the modelled names can be told from, else the default
mime_for_ext(path) ==
    LET ext == Extension(path)
    IN CASE ext \in {<<"h", "t", "m", "l">>, <<"h", "t", "m">>} -> "text/html; charset=utf-8"
         [] ext = <<"m", "d">> -> "text/markdown; charset=utf-8"
         [] OTHER -> "application/octet-stream"

Digits == {"0", "1", "2", "3", "4", "5", "6", "7", "8", "9"}
Letters == {"a", "d", "h", "l", "m", "r", "o", "s", "t", "w"}

\* is_hashed_asset
is_hashed_asset(path) ==
    \/ \E k \in 1..(Len(path) - 1) : path[k] = <<"a", "s", "s", "e", "t", "s">>
    \/ \E k \in 1..(Len(path) - 2) :
          /\ path[k] \in {<<"s", "t", "a", "t", "i", "c">>, <<"_", "n", "e", "x", "t">>}
          /\ path[k + 1] \in {<<"j", "s">>, <<"c", "s", "s">>, <<"s", "t", "a", "t", "i", "c">>}
    \/ LET parts == SplitAny(FileStem(path), {".", "-"})
       IN \E k \in 1..Len(parts) :
             /\ Len(parts[k]) >= 6 /\ Len(parts[k]) <= 32
             /\ \A j \in 1..Len(parts[k]) : parts[k][j] \in Digits \cup Letters
             /\ \E j \in 1..Len(parts[k]) : parts[k][j] \in Digits
             /\ \E j \in 1..Len(parts[k]) : parts[k][j] \in Letters

\* cache_control
cache_control(path, content_type, config) ==
    IF content_type = "text/html; charset=utf-8" THEN [kind |-> "no-cache", max_age |-> 0]
    ELSE IF is_hashed_asset(path)
    THEN [kind |-> "immutable", max_age |-> config.immutable_max_age]
    ELSE [kind |-> "public", max_age |-> config.cache_max_age]

NoCache == [kind |-> "no-cache", max_age |-> 0]
NoHeader == [kind |-> "none", max_age |-> 0]

\* err_not_found(msg, message)
NotFound(message) ==
    [status |-> 404, served |-> <<>>, content_type |-> "", cache_control |-> NoHeader,
     message |-> message, clean |-> <<>>]

\* serve_static_file
serve_static_file(path, config) ==
    LET data == FsRead(path)
        content_type == mime_for_ext(path)
    IN IF ~data.ok THEN NotFound("File not found")
       ELSE [status |-> 200, served |-> data.from, content_type |-> content_type,
             cache_control |-> cache_control(path, content_type, config), message |-> "",
             clean |-> <<>>]

\* serve_index_spa
ServeIndexSpaCached(index_path) ==
    LET data == FsRead(index_path)
    IN IF ~data.ok THEN NotFound("Index file not found")
       ELSE [status |-> 200, served |-> data.from, content_type |-> "text/html; charset=utf-8",
             cache_control |-> [kind |-> "public", max_age |-> DefaultCacheMaxAge],
             message |-> "", clean |-> <<>>]
serve_index_spa(index_path) ==
    LET data == FsRead(index_path)
    IN IF ~data.ok THEN NotFound("Index file not found")
       ELSE [status |-> 200, served |-> data.from, content_type |-> "text/html; charset=utf-8",
             cache_control |-> NoCache, message |-> "", clean |-> <<>>]

\* the dotfile test of serve_file, line 76
IsDotSegment(seg) == seg # <<>> /\ seg[1] = "." /\ Len(seg) > 1
HasDotfileInFileName(clean) ==
    LET segs == Split(clean, "/") IN IsDotSegment(segs[Len(segs)])
HasDotfile(clean) ==
    LET segs == Split(clean, "/") IN \E k \in 1..Len(segs) : IsDotSegment(segs[k])

\* the path serve_file works on: prefix stripped, index for the empty path
RequestPath(path, config) ==
    LET stripped == IF config.prefix # <<>> /\ StartsWith(path, config.prefix)
                    THEN StripPrefix(path, config.prefix) ELSE path
    IN IF stripped = <<>> \/ stripped = <<"/">> THEN <<"/">> \o config.index_file
       ELSE stripped

\* WebBlock::serve_file; the result also records the local `clean`
serve_file(path, config) ==
    LET clean == clean_path(RequestPath(path, config))
        abs_root == Canonicalize(config.root)
        file_path == PathJoin(abs_root.path, TrimStartMatches(clean, "/"))
        resolved == Canonicalize(file_path)
        result ==
            IF HasDotfile(clean) THEN NotFound("Not found")
            ELSE IF ~abs_root.ok THEN NotFound("Web root not found")
            ELSE IF ~resolved.ok
            THEN IF config.spa
                 THEN serve_index_spa(PathJoin(abs_root.path, config.index_file))
                 ELSE NotFound("File not found")
            ELSE IF ~PathStartsWith(resolved.path, abs_root.path) THEN NotFound("Not found")
            ELSE IF IsDir(resolved.path)
            THEN LET index == PathJoin(resolved.path, config.index_file)
                 IN IF Exists(index) THEN serve_static_file(index, config)
                    ELSE NotFound("Not found")
            ELSE serve_static_file(resolved.path, config)
    IN [result EXCEPT !.clean = clean]

MethodNotAllowed ==
    [status |-> 405, served |-> <<>>, content_type |-> "", cache_control |-> NoHeader,
     message |-> "Only GET is supported", clean |-> <<>>]

NoWebReq == [path |-> <<>>, action |-> "none"]
NoWebResp ==
    [status |-> 0, served |-> <<>>, content_type |-> "", cache_control |-> NoHeader,
     message |-> "", clean |-> <<>>]

\* msg.action(): the verb derived from the method
WebActions == {"retrieve", "create"}

WebInit ==
    /\ fs \in Layouts
    /\ web_config \in [root : {PRoot, PRootLink, PMissing}, prefix : {<<>>, <<"/", "d">>},
                       spa : BOOLEAN, index_file : {<<"a">>},
                       cache_max_age : {DefaultCacheMaxAge},
                       immutable_max_age : {DefaultImmutableMaxAge}]
    /\ web_req = NoWebReq
    /\ web_resp = NoWebResp

\* WebBlock::handle, on the one request of a behaviour (the block keeps no
\* state between requests)
WebHandle(path, action) ==
    /\ web_req = NoWebReq
    /\ web_req' = [path |-> path, action |-> action]
    /\ web_resp' = IF action # "" /\ action # "retrieve" THEN MethodNotAllowed
                   ELSE serve_file(path, web_config)
    /\ UNCHANGED <<fs, web_config>>
    /\ UNCHANGED <<rlVars, authVars, chain>>

WebNext ==
    /\ web_req = NoWebReq
    /\ \E path \in StringsUpTo(PathChars, MaxPathLen), action \in WebActions :
          WebHandle(path, action)

(***************************************************************************)
(* Claims about the static file server                                     *)
(***************************************************************************)
\* the canonical web root, when the configured root resolves
CanonRoot == Canonicalize(web_config.root).path

StrictlyInside(path, base) == PathStartsWith(path, base) /\ Len(path) > Len(base)

\* C3: every file whose content is returned with status 200 has a canonical
\* path strictly inside the canonical root; anything else is answered 404
\* (direct file, directory index and SPA index fallback alike).
C3_Containment ==
    web_resp.status = 200 => StrictlyInside(web_resp.served, CanonRoot)

\* serve_file ran on the request
Served == web_req # NoWebReq /\ web_resp.status # 405

\* the segments of a normalized path: the pieces after its leading '/'
Segments(clean) == IF Len(clean) <= 1 THEN <<>> ELSE Split(Tail(clean), "/")

\* C16: normalizing is idempotent, clean_path(clean_path(p)) = clean_path(p)
\* for every path p, and a normalized path starts with '/' and has no empty,
\* '.' or '..' segment.
C16_CleanPathIdempotent ==
    Served =>
        LET clean == web_resp.clean
            segs == Segments(clean)
        IN /\ clean # <<>> /\ clean[1] = "/"
           /\ \A k \in 1..Len(segs) :
                 segs[k] # <<>> /\ segs[k] # <<".">> /\ segs[k] # <<".", ".">>
           /\ clean_path(clean) = clean
           /\ clean_path(clean_path(web_req.path)) = clean_path(web_req.path)

\* a path that starts by climbing above the root
C16_Witness ==
    /\ Served /\ web_config.prefix = <<>>
    /\ web_req.path = <<".", ".", "/", "a">>
    /\ web_resp.clean = <<"/", "a">>

\* the normalized path of the request does not resolve under the root
RootResolves == Canonicalize(web_config.root).ok
Unresolved ==
    ~Canonicalize(PathJoin(CanonRoot, TrimStartMatches(web_resp.clean, "/"))).ok
\* the index file under the root, and whether it can be read
SpaIndex == PathJoin(CanonRoot, web_config.index_file)
\* a segment of the normalized path begins with '.' and is longer than that
Hidden ==
    \E k \in 1..Len(Segments(web_resp.clean)) :
        LET seg == Segments(web_resp.clean)[k] IN seg[1] = "." /\ Len(seg) > 1

\* C17 (as stated): for a GET request whose normalized path does not resolve
\* to an existing entry, the response is 200 with the content of the index file
\* and Cache-Control: no-cache when SPA mode is on, and 404 when it is off.
C17_AsStated ==
    Served /\ (~RootResolves \/ Unresolved) =>
        IF web_config.spa
        THEN /\ web_resp.status = 200
             /\ web_resp.cache_control = NoCache
             /\ web_resp.served = FsRead(SpaIndex).from
        ELSE web_resp.status = 404

\* C17 (amended): for a GET request whose normalized path has no hidden
\* segment and does not resolve under a root that resolves: with SPA mode on
\* the response is 200 with the content of the index file as text/html and
\* Cache-Control: no-cache when the index file can be read, and 404 when it
\* cannot; with SPA mode off it is 404.
C17_SpaFallback ==
    Served /\ RootResolves /\ Unresolved /\ ~Hidden =>
        IF web_config.spa /\ FsRead(SpaIndex).ok
        THEN /\ web_resp.status = 200
             /\ web_resp.cache_control = NoCache
             /\ web_resp.content_type = "text/html; charset=utf-8"
             /\ web_resp.served = FsRead(SpaIndex).from
        ELSE web_resp.status = 404

\* SPA mode on, a path with no file behind it, the index served
C17_Witness ==
    /\ Served /\ RootResolves /\ Unresolved /\ ~Hidden /\ web_config.spa
    /\ web_resp.clean = <<"/", "d", "/", "d">>
    /\ web_resp.status = 200 /\ web_resp.served = PRootA

\* C18: a request whose normalized path has a segment that begins with '.' and
\* is longer than one character is answered 404 "Not found" before anything is
\* resolved: whether or not the file exists, whether or not the root resolves,
\* and with SPA mode on as well (no index fallback).
C18_DotfileIs404 ==
    Served /\ Hidden =>
        /\ web_resp.status = 404
        /\ web_resp.message = "Not found"
        /\ web_resp.served = <<>>

\* SPA mode on and the hidden file exists: 404
C18_Witness ==
    /\ Served /\ Hidden /\ web_config.spa /\ RootResolves
    /\ Lookup(PRootDot) = File /\ web_resp.clean = <<"/", ".", "a">>
    /\ FsRead(SpaIndex).ok
    /\ web_resp.status = 404

(***************************************************************************)
(* Auth block: blocks/auth.rs                                              *)
(***************************************************************************)
\* serde_json::Value as the blocks read it; JAbsent is a key the map lacks
JAbsent == [t |-> "absent", v |-> <<>>]
JNull == [t |-> "null", v |-> <<>>]
JNum == [t |-> "num", v |-> <<>>]
JStr(s) == [t |-> "str", v |-> s]
JArr(a) == [t |-> "arr", v |-> a]

\* .and_then(|v| v.as_str()).unwrap_or("")
StrOrEmpty(j) == IF j.t = "str" THEN j.v ELSE <<>>

\* strings of the model
Bearer == <<"B", "e", "a", "r", "e", "r", " ">>
SbPrefix == <<"s", "b", "_">>
ApiKeyToken == <<"s", "b", "_", "k">>
JwtToken == <<"j">>
Admin == <<"a", "d", "m", "i", "n">>
Editor == <<"e", "d">>
User1 == <<"u", "1">>
User2 == <<"u", "2">>
Email1 == <<"e", "@">>

\* timestamps: one RFC 3339 text, and two texts that are none
Stamp == <<"2025-06-01T00:00:00Z">>
DateOnly == <<"2025-06-01">>
\* chrono::Utc::now() at validation, on a scale where Stamp is 2
AuthTimes == {1, 2, 3}

\* chrono::DateTime::parse_from_rfc3339
ParseRfc3339(s) ==
    IF s = Stamp THEN [ok |-> TRUE, time |-> 2] ELSE [ok |-> FALSE, time |-> 0]

\* msg.cookie("auth_token")
Cookies == {<<>>, ApiKeyToken, JwtToken}
\* msg.header("Authorization")
AuthHeaders ==
    {<<>>, Bearer \o ApiKeyToken, Bearer \o JwtToken, Bearer \o <<" ", " ">>,
     Bearer \o <<" ">> \o JwtToken \o <<" ">>, <<"B", "a", "s", "i", "c", " ">> \o JwtToken,
     <<"b", "e", "a", "r", "e", "r", " ">> \o JwtToken}

NoToken == [some |-> FALSE, token |-> <<>>]
Some(tok) == [some |-> TRUE, token |-> tok]

\* AuthBlock::extract_token
ExtractTokenHeaderFirst(m) ==
    IF StartsWith(m.authorization, Bearer) /\ Trim(StripPrefix(m.authorization, Bearer)) # <<>>
    THEN Some(Trim(StripPrefix(m.authorization, Bearer)))
    ELSE IF m.cookie # <<>> THEN Some(m.cookie)
    ELSE NoToken
extract_token(m) ==
    IF m.cookie # <<>> THEN Some(m.cookie)
    ELSE IF m.authorization = <<>> THEN NoToken
    ELSE IF StartsWith(m.authorization, Bearer)
            /\ Trim(StripPrefix(m.authorization, Bearer)) # <<>>
    THEN Some(Trim(StripPrefix(m.authorization, Bearer)))
    ELSE NoToken

\* AuthBlock::is_api_key
is_api_key(token) == StartsWith(token, SbPrefix)

\* auth_error(msg, status, message)
AuthError(status, message) == [action |-> "error", status |-> status, message |-> message]
Continue == [action |-> "continue", status |-> 0, message |-> ""]
NoOutcome == [action |-> "none", status |-> 0, message |-> ""]

\* the api_keys rows a lookup may return
NoRecord == [revoked_at |-> JAbsent, expires_at |-> JAbsent, user_id |-> JAbsent, found |-> FALSE]
KeyRecords ==
    [revoked_at : {JAbsent, JNull, JStr(Stamp), JNum},
     expires_at : {JAbsent, JNull, JNum, JStr(<<>>), JStr(DateOnly), JStr(Stamp)},
     user_id : {JAbsent, JNum, JStr(<<>>), JStr(User1)},
     found : {TRUE}]

\* the claims crypto.verify may return
NoClaims == [user_id |-> JAbsent, sub |-> JAbsent, email |-> JAbsent, roles |-> JAbsent, found |-> FALSE]
ClaimSets ==
    [user_id : {JAbsent, JNum, JStr(<<>>), JStr(User1)},
     sub : {JAbsent, JStr(User2)},
     email : {JAbsent, JStr(Email1)},
     roles : {JAbsent, JNum, JStr(<<>>), JStr(Admin \o <<",", " ">> \o Editor),
              JArr(<<JStr(Admin), JStr(Editor)>>), JArr(<<JNum>>)},
     found : {TRUE}]

\* validate_api_key, lines 93-98: revoked_at present and not null
IsRevokedOnlyIfString(rec) == rec.revoked_at.t = "str"
IsRevoked(rec) == rec.revoked_at.t # "absent" /\ rec.revoked_at.t # "null"

\* validate_api_key, lines 100-111: a non-empty string that parses and lies before now
IsExpiredUnlessParsedLater(rec, now) ==
    /\ rec.expires_at.t = "str"
    /\ ~(ParseRfc3339(rec.expires_at.v).ok /\ ParseRfc3339(rec.expires_at.v).time >= now)
IsExpired(rec, now) ==
    /\ rec.expires_at.t = "str"
    /\ rec.expires_at.v # <<>>
    /\ ParseRfc3339(rec.expires_at.v).ok
    /\ ParseRfc3339(rec.expires_at.v).time < now

\* user_id.is_empty(), lines 121 and 216
UserIdMissingNever(user_id) == FALSE
UserIdMissing(user_id) == user_id = <<>>

\* validate_jwt, lines 189-194: user_id, or sub when the user_id claim is absent
ClaimUserId(claims) ==
    StrOrEmpty(IF claims.user_id.t # "absent" THEN claims.user_id ELSE claims.sub)

RECURSIVE StringsOf(_)
\* .filter_map(|v| v.as_str()): the strings of an array of values
StringsOf(arr) ==
    IF arr = <<>> THEN <<>>
    ELSE IF Head(arr).t = "str" THEN <<Head(arr).v>> \o StringsOf(Tail(arr))
    ELSE StringsOf(Tail(arr))

RECURSIVE TrimAll(_)
\* .map(|r| r.trim())
TrimAll(parts) == IF parts = <<>> THEN <<>> ELSE <<Trim(Head(parts))>> \o TrimAll(Tail(parts))

\* validate_jwt, lines 202-214: the roles claim as an array or a comma-separated string
ClaimRoles(claims) ==
    IF claims.roles.t = "arr" THEN StringsOf(claims.roles.v)
    ELSE IF claims.roles.t = "str" THEN TrimAll(Split(claims.roles.v, ","))
    ELSE <<>>

AuthIdle ==
    [pc |-> "start", token |-> <<>>, validator |-> "none", key_record |-> NoRecord,
     claims |-> NoClaims, now |-> 0, user_id |-> <<>>, email |-> <<>>, roles |-> <<>>,
     email_err |-> FALSE, roles_err |-> FALSE, failed |-> "none", result |-> NoOutcome]

\* error(msg, status, code, message) and msg.cont() of IAMBlock::handle
IamError(status, message, role) ==
    [action |-> "error", status |-> status, message |-> message, role |-> role]
IamContinue == [action |-> "continue", status |-> 0, message |-> "", role |-> <<>>]
IamNoOutcome == [action |-> "none", status |-> 0, message |-> "", role |-> <<>>]

IamIdle == [pc |-> "start", required_role |-> <<>>, lookup |-> "none", result |-> IamNoOutcome]

\* ctx.services(), services.database, services.crypto: present or not
Services ==
    {[services |-> FALSE, database |-> FALSE, crypto |-> FALSE]}
        \cup [services : {TRUE}, database : BOOLEAN, crypto : BOOLEAN]

NoMeta == [user_id |-> <<>>, user_email |-> <<>>, user_roles |-> <<>>]

AuthInit ==
    /\ msg \in [cookie : Cookies, authorization : AuthHeaders,
                meta : {NoMeta, [user_id |-> <<>>, user_email |-> <<"x">>, user_roles |-> Admin]}]
    /\ \E s \in Services : ctx = [services |-> s.services, database |-> s.database,
                                  crypto |-> s.crypto, role |-> <<>>, role_set |-> FALSE]
    /\ auth = AuthIdle
    /\ iam = IamIdle

Fail(status, message, why) ==
    [auth EXCEPT !.pc = "done", !.result = AuthError(status, message), !.failed = why]

\* handle(), lines 239-255: extract the token and pick the validator
AuthExtract ==
    /\ auth.pc = "start"
    /\ LET t == extract_token(msg)
       IN auth' = IF ~t.some
                  THEN Fail(401, "No authentication token provided", "none")
                  ELSE [auth EXCEPT !.token = t.token,
                            !.validator = IF is_api_key(t.token) THEN "api_key" ELSE "jwt",
                            !.pc = IF is_api_key(t.token) THEN "api_services" ELSE "jwt_services"]
    /\ UNCHANGED <<msg, ctx, iam>>
    /\ UNCHANGED <<rlVars, webVars, chain>>

\* validate_api_key, lines 48-61: the services the validation needs
AuthApiServices ==
    /\ auth.pc = "api_services"
    /\ auth' = IF ~ctx.services THEN Fail(500, "Auth services unavailable", "services")
               ELSE IF ~ctx.database THEN Fail(500, "Database service unavailable", "database")
               ELSE IF ~ctx.crypto THEN Fail(500, "Crypto service unavailable", "crypto")
               ELSE [auth EXCEPT !.pc = "hash"]
    /\ UNCHANGED <<msg, ctx, iam>>
    /\ UNCHANGED <<rlVars, webVars, chain>>

\* lines 63-67: crypto.hash(token)
AuthHash(ok) ==
    /\ auth.pc = "hash"
    /\ auth' = IF ok THEN [auth EXCEPT !.pc = "list_keys"]
               ELSE Fail(500, "Failed to hash API key", "hash")
    /\ UNCHANGED <<msg, ctx, iam>>
    /\ UNCHANGED <<rlVars, webVars, chain>>

\* lines 69-91: db.list("api_keys", key_hash = .., limit 1) fails, finds nothing, or a row
AuthListKeys(err, rec) ==
    /\ auth.pc = "list_keys"
    /\ auth' = IF err THEN Fail(401, "Invalid API key", "keystore")
               ELSE IF ~rec.found THEN Fail(401, "Invalid API key", "none")
               ELSE [auth EXCEPT !.pc = "check_key", !.key_record = rec]
    /\ UNCHANGED <<msg, ctx, iam>>
    /\ UNCHANGED <<rlVars, webVars, chain>>

\* lines 93-123: revoked, expired (against Utc::now()), user_id of the row
AuthCheckKey(now) ==
    /\ auth.pc = "check_key"
    /\ LET rec == auth.key_record
           user_id == StrOrEmpty(rec.user_id)
       IN auth' = IF IsRevoked(rec)
                  THEN [Fail(401, "API key has been revoked", "none") EXCEPT !.now = now]
                  ELSE IF IsExpired(rec, now)
                  THEN [Fail(401, "API key has expired", "none") EXCEPT !.now = now]
                  ELSE IF UserIdMissing(user_id)
                  THEN [Fail(401, "API key has no associated user", "none") EXCEPT !.now = now]
                  ELSE [auth EXCEPT !.pc = "get_user", !.user_id = user_id, !.now = now]
    /\ UNCHANGED <<msg, ctx, iam>>
    /\ UNCHANGED <<rlVars, webVars, chain>>

\* lines 125-134: db.get("auth_users", user_id); a failure is an empty email
AuthGetUser(err, email) ==
    /\ auth.pc = "get_user"
    /\ auth' = [auth EXCEPT !.pc = "list_roles", !.email_err = err,
                            !.email = IF err THEN <<>> ELSE StrOrEmpty(email)]
    /\ UNCHANGED <<msg, ctx, iam>>
    /\ UNCHANGED <<rlVars, webVars, chain>>

\* lines 136-157: db.list("iam_user_roles", user_id = ..); a failure is no roles
AuthListRolesStrict(err, rows) ==
    /\ auth.pc = "list_roles"
    /\ auth' = IF err THEN [Fail(500, "Role lookup failed", "roles") EXCEPT !.roles_err = TRUE]
               ELSE [auth EXCEPT !.pc = "set_meta", !.roles = StringsOf(rows)]
    /\ UNCHANGED <<msg, ctx, iam>>
    /\ UNCHANGED <<rlVars, webVars, chain>>
AuthListRoles(err, rows) ==
    /\ auth.pc = "list_roles"
    /\ auth' = [auth EXCEPT !.pc = "set_meta", !.roles_err = err,
                            !.roles = IF err THEN <<>> ELSE StringsOf(rows)]
    /\ UNCHANGED <<msg, ctx, iam>>
    /\ UNCHANGED <<rlVars, webVars, chain>>

\* validate_jwt, lines 166-174
AuthJwtServices ==
    /\ auth.pc = "jwt_services"
    /\ auth' = IF ~ctx.services THEN Fail(500, "Auth services unavailable", "services")
               ELSE IF ~ctx.crypto THEN Fail(500, "Crypto service unavailable", "crypto")
               ELSE [auth EXCEPT !.pc = "verify"]
    /\ UNCHANGED <<msg, ctx, iam>>
    /\ UNCHANGED <<rlVars, webVars, chain>>

\* validate_jwt, lines 176-220: crypto.verify(token) fails or gives the claims
AuthVerify(err, claims) ==
    /\ auth.pc = "verify"
    /\ auth' = IF err THEN Fail(401, "Invalid or expired token", "none")
               ELSE IF UserIdMissing(ClaimUserId(claims))
               THEN [Fail(401, "Token missing user_id", "none") EXCEPT !.claims = claims]
               ELSE [auth EXCEPT !.pc = "set_meta", !.claims = claims,
                         !.user_id = ClaimUserId(claims),
                         !.email = StrOrEmpty(claims.email),
                         !.roles = ClaimRoles(claims)]
    /\ UNCHANGED <<msg, ctx, iam>>
    /\ UNCHANGED <<rlVars, webVars, chain>>

\* handle(), lines 257-266: publish the identity and continue
AuthSetMeta ==
    /\ auth.pc = "set_meta"
    /\ msg' = [msg EXCEPT !.meta =
                  [user_id |-> auth.user_id,
                   user_email |-> IF auth.email # <<>> THEN auth.email ELSE @.user_email,
                   user_roles |-> IF auth.roles # <<>> THEN Join(auth.roles, <<",">>)
                                  ELSE @.user_roles]]
    /\ auth' = [auth EXCEPT !.pc = "done", !.result = Continue]
    /\ UNCHANGED <<ctx, iam>>
    /\ UNCHANGED <<rlVars, webVars, chain>>

\* the rows of iam_user_roles a list may return, by their role field
RoleRows == {<<>>, <<JStr(Admin)>>, <<JStr(Admin), JStr(Editor)>>, <<JNum>>}

AuthNext ==
    \/ AuthExtract
    \/ AuthApiServices
    \/ \E ok \in BOOLEAN : AuthHash(ok)
    \/ \E err \in BOOLEAN, rec \in KeyRecords \cup {NoRecord} : AuthListKeys(err, rec)
    \/ \E now \in AuthTimes : AuthCheckKey(now)
    \/ \E err \in BOOLEAN, email \in {JAbsent, JNum, JStr(Email1)} : AuthGetUser(err, email)
    \/ \E err \in BOOLEAN, rows \in RoleRows : AuthListRoles(err, rows)
    \/ AuthJwtServices
    \/ \E err \in BOOLEAN, claims \in ClaimSets : AuthVerify(err, claims)
    \/ AuthSetMeta

(***************************************************************************)
(* Claims about the auth block                                             *)
(***************************************************************************)
\* the key row was fetched and the checks of lines 93-123 have run
KeyChecked == auth.key_record.found /\ auth.pc # "check_key"

\* C4: an API key record whose revoked_at is present and not null is always
\* rejected: the request ends in a terminal 401 whatever expires_at and
\* user_id hold, and the email and role lookups are never reached.
C4_RevokedRejected ==
    auth.key_record.found /\ auth.key_record.revoked_at \notin {JAbsent, JNull}
        => /\ auth.pc \in {"check_key", "done"}
           /\ auth.pc = "done" => auth.result = AuthError(401, "API key has been revoked")

\* a revoked key (revoked_at a non-string value) with no expiry and a user, rejected
C4_Witness ==
    /\ auth.pc = "done" /\ auth.key_record.found
    /\ auth.key_record.revoked_at = JNum
    /\ auth.key_record.expires_at = JAbsent
    /\ auth.key_record.user_id = JStr(User1)
    /\ auth.result.status = 401

\* C5: a non-revoked key whose expires_at parses as RFC 3339 and lies before
\* the evaluation time is rejected with 401; an expires_at that is absent,
\* null, not a string, empty or unparseable never causes the expiry rejection
\* (such a key with a user goes on to continue).
C5_Expiry ==
    KeyChecked /\ auth.key_record.revoked_at \in {JAbsent, JNull}
        => /\ auth.key_record.expires_at = JStr(Stamp) /\ auth.now > 2
                => auth.pc = "done" /\ auth.result = AuthError(401, "API key has expired")
           /\ auth.key_record.expires_at \in {JAbsent, JNull, JNum, JStr(<<>>), JStr(DateOnly)}
                => /\ auth.result.message # "API key has expired"
                   /\ auth.key_record.user_id = JStr(User1) => auth.result.action # "error"

\* a key that expired before now, not revoked, rejected; its user is valid
C5_Witness ==
    /\ auth.pc = "done" /\ auth.key_record.found
    /\ auth.key_record.revoked_at = JNull
    /\ auth.key_record.expires_at = JStr(Stamp) /\ auth.now = 3
    /\ auth.key_record.user_id = JStr(User1)
    /\ auth.result = AuthError(401, "API key has expired")

\* C8: a failure of a required collaborator (service container, database,
\* crypto service, hashing, the key-store query) ends in a terminal 500 and
\* never in 401; 401 is returned only for failures of the credential itself.
C8_InfrastructureIs500 ==
    auth.pc = "done" /\ auth.failed # "none"
        => auth.result.status = 500 /\ auth.result.action = "error"

\* C9: a non-empty auth_token cookie is the credential whatever the
\* Authorization header holds; else the trimmed, non-empty text after
\* "Bearer "; with neither the request ends in 401 "No authentication token
\* provided" and no validator runs; at most one validator runs.
C9_Extraction ==
    auth.pc # "start" =>
        LET bearer == StartsWith(msg.authorization, Bearer)
            rest == Trim(StripPrefix(msg.authorization, Bearer))
            fromHeader == bearer /\ rest # <<>>
        IN /\ msg.cookie # <<>> => auth.token = msg.cookie /\ auth.validator # "none"
           /\ msg.cookie = <<>> /\ fromHeader => auth.token = rest /\ auth.validator # "none"
           /\ msg.cookie = <<>> /\ ~fromHeader
                => /\ auth.pc = "done"
                   /\ auth.result = AuthError(401, "No authentication token provided")
                   /\ auth.validator = "none"
           /\ auth.validator # "api_key" => ~auth.key_record.found
           /\ auth.validator # "jwt" => ~auth.claims.found

\* a cookie token validated as a JWT although the header carries an API key
C9_Witness ==
    /\ auth.pc = "done"
    /\ msg.cookie = JwtToken /\ msg.authorization = Bearer \o ApiKeyToken
    /\ auth.token = JwtToken /\ auth.validator = "jwt" /\ auth.claims.found

\* C10: when the block continues, auth.user_id in the metadata is the
\* non-empty user id of the validated credential (the key row's user_id; the
\* token's user_id claim, or sub when there is no user_id claim); a credential
\* whose user id resolves to empty ends in a terminal 401.
C10_UserIdPublished ==
    LET rec == auth.key_record
        cl == auth.claims
        uid == msg.meta.user_id
        noUser == \/ rec.found /\ rec.user_id \in {JAbsent, JNum, JStr(<<>>)}
                  \/ cl.found /\ cl.user_id \in {JNum, JStr(<<>>)}
                  \/ cl.found /\ cl.user_id = JAbsent /\ cl.sub = JAbsent
    IN /\ auth.result.action = "continue"
            => /\ uid # <<>>
               /\ \/ auth.validator = "api_key" /\ rec.user_id = JStr(uid)
                  \/ auth.validator = "jwt" /\ cl.user_id = JStr(uid)
                  \/ auth.validator = "jwt" /\ cl.user_id = JAbsent /\ cl.sub = JStr(uid)
       /\ (auth.pc = "done" /\ noUser)
            => auth.result.action = "error" /\ auth.result.status = 401

\* a token without a user_id claim continues as the user its sub claim names
C10_Witness ==
    /\ auth.pc = "done" /\ auth.result.action = "continue"
    /\ auth.claims.found /\ auth.claims.user_id = JAbsent /\ auth.claims.sub = JStr(User2)
    /\ msg.meta.user_id = User2

\* C12: on the API-key path, once the key row is found, not revoked, not
\* expired and carries a non-empty user_id, the block never ends in an error:
\* a failing auth_users lookup gives an empty email, a failing iam_user_roles
\* lookup an empty role set, and the block continues with that user_id.
C12_LookupsAreBestEffort ==
    auth.validator = "api_key" /\ auth.pc \in {"get_user", "list_roles", "set_meta", "done"}
        /\ auth.key_record.found /\ ~IsRevoked(auth.key_record)
        /\ ~IsExpired(auth.key_record, auth.now) /\ StrOrEmpty(auth.key_record.user_id) # <<>>
        => /\ auth.result.action # "error"
           /\ auth.failed = "none"
           /\ auth.email_err => auth.email = <<>>
           /\ auth.roles_err => auth.roles = <<>>
           /\ auth.pc = "done" => /\ auth.result = Continue
                                  /\ msg.meta.user_id = StrOrEmpty(auth.key_record.user_id)

\* both lookups failed and the block continued with no email and no roles
C12_Witness ==
    /\ auth.validator = "api_key" /\ auth.pc = "done" /\ auth.result = Continue
    /\ auth.email_err /\ auth.roles_err
    /\ auth.email = <<>> /\ auth.roles = <<>> /\ auth.user_id = User1

\* C20: after the block continues, auth.user_id, auth.user_email and
\* auth.user_roles are what the validated credential resolved to (the email, and
\* the roles joined by commas, empty when there are none) and nothing of what
\* the metadata held before: two requests with the same credential end with the
\* same values whatever auth.user_email and auth.user_roles were before.
C20_IdentityFromCredentialOnly ==
    auth.pc = "done" /\ auth.result = Continue
        => msg.meta = [user_id |-> auth.user_id,
                       user_email |-> auth.email,
                       user_roles |-> Join(auth.roles, <<",">>)]

(***************************************************************************)
(* Role check: blocks/iam.rs                                               *)
(***************************************************************************)
\* the comma-separated role lists auth.user_roles may hold
RoleLists ==
    {<<>>, Admin, Editor, Admin \o <<",">> \o Editor, Editor \o <<",", " ">> \o Admin,
     Admin \o <<"s">>}

\* IAMBlock::has_role_meta
has_role_meta(m, role) ==
    LET roles_str == m.meta.user_roles
        pieces == Split(roles_str, ",")
    IN IF roles_str = <<>> THEN FALSE
       ELSE \E k \in 1..Len(pieces) : Trim(pieces[k]) = role

\* IAMBlock::has_role_db: "failed" is None, the others Some(!records.is_empty())
has_role_db(c, answer) ==
    IF ~c.services \/ ~c.database \/ answer = "err" THEN "failed" ELSE answer

\* handle(), lines 84-88: the store's answer when there is one, else the metadata
HasRoleDbOrMeta(lookup, in_meta) == lookup = "found" \/ in_meta
HasRoleMetaOnly(lookup, in_meta) == in_meta
HasRole(lookup, in_meta) == IF lookup = "failed" THEN in_meta ELSE lookup = "found"

\* handle(), line 69: user_id.is_empty()
UnauthenticatedNever(user_id) == FALSE
Unauthenticated(user_id) == user_id = <<>>

\* handle(), lines 78-82: config "role", default "admin"
RequiredRole(c) == IF c.role_set THEN c.role ELSE Admin

IamInit ==
    /\ msg \in [cookie : {<<>>}, authorization : {<<>>},
                meta : [user_id : {<<>>, User1}, user_email : {<<>>}, user_roles : RoleLists]]
    /\ \E s \in Services, r \in {<<>>, Admin, Editor} :
          ctx = [services |-> s.services, database |-> s.database, crypto |-> s.crypto,
                 role |-> r, role_set |-> r # <<>>]
    /\ auth = AuthIdle
    /\ iam = IamIdle

\* handle(), lines 66-82: msg.user_id() is the auth.user_id the auth block published
IamStart ==
    /\ iam.pc = "start"
    /\ iam' = IF Unauthenticated(msg.meta.user_id)
              THEN [iam EXCEPT !.pc = "done",
                       !.result = IamError(401, "Authentication required", <<>>)]
              ELSE [iam EXCEPT !.pc = "has_role", !.required_role = RequiredRole(ctx)]
    /\ UNCHANGED <<msg, ctx, auth>>
    /\ UNCHANGED <<rlVars, webVars, chain>>

\* handle(), lines 84-99: db.list("iam_user_roles", user_id, role, limit 1) answers
IamDecide(answer) ==
    /\ iam.pc = "has_role"
    /\ LET lookup == has_role_db(ctx, answer)
           has_role == HasRole(lookup, has_role_meta(msg, iam.required_role))
       IN iam' = [iam EXCEPT !.pc = "done", !.lookup = lookup,
                      !.result = IF has_role THEN IamContinue
                                 ELSE IamError(403, "Requires role", iam.required_role)]
    /\ UNCHANGED <<msg, ctx, auth>>
    /\ UNCHANGED <<rlVars, webVars, chain>>

IamNext ==
    \/ IamStart
    \/ \E answer \in {"err", "empty", "found"} : IamDecide(answer)

(***************************************************************************)
(* Claims about the role check                                             *)
(***************************************************************************)
\* the role the node requires, and whether auth.user_roles lists it
Required == IF ctx.role_set THEN ctx.role ELSE Admin
Listed ==
    LET pieces == Split(msg.meta.user_roles, ",")
    IN \E k \in 1..Len(pieces) : Trim(pieces[k]) = Required

\* C6: for an authenticated request, a result of the live role lookup alone
\* decides (a row found: continue; none: 403 naming the required role)
\* whatever auth.user_roles lists; the metadata list decides only when the
\* lookup fails (no services, no database, or a query error).
C6_StoreBeforeMeta ==
    iam.pc = "done" /\ msg.meta.user_id # <<>>
        => /\ iam.lookup = "found" => iam.result = IamContinue
           /\ iam.lookup = "empty" => iam.result = IamError(403, "Requires role", Required)
           /\ iam.lookup = "failed" /\ Listed => iam.result = IamContinue
           /\ iam.lookup = "failed" /\ ~Listed
                => iam.result = IamError(403, "Requires role", Required)
           /\ iam.lookup \in {"found", "empty", "failed"}
           /\ ~ctx.services \/ ~ctx.database => iam.lookup = "failed"

\* the store answers with no row while the metadata lists the role: 403
C6_Witness ==
    /\ iam.pc = "done" /\ msg.meta.user_id = User1
    /\ iam.lookup = "empty" /\ Listed
    /\ iam.result.status = 403

\* C7: a request whose user_id is empty always gets a terminal 401, whatever
\* the role store and auth.user_roles hold (the lookup is not even made); a
\* 403 is only ever returned to a request with a non-empty user_id.
C7_UnauthenticatedIs401 ==
    /\ iam.pc = "done" /\ msg.meta.user_id = <<>>
          => /\ iam.result = IamError(401, "Authentication required", <<>>)
             /\ iam.lookup = "none"
    /\ msg.meta.user_id = <<>> => iam.pc \in {"start", "done"}
    /\ iam.result.status = 403 => msg.meta.user_id # <<>>

\* no user id, a working store and a metadata list naming the role: 401
C7_Witness ==
    /\ iam.pc = "done" /\ msg.meta.user_id = <<>>
    /\ ctx.services /\ ctx.database /\ Listed
    /\ iam.result.status = 401

(***************************************************************************)
(* Infrastructure blocks: blocks/security_headers.rs, blocks/cors.rs,      *)
(* blocks/readonly_guard.rs, blocks/monitoring.rs                          *)
(***************************************************************************)
\* a config key the node does not set
NoCfg == <<"-">>

\* SecurityHeadersBlock::new(): the default Content-Security-Policy
DefaultCsp == <<"default-src 'self'; ...; frame-ancestors 'none'">>
\* CorsBlock::new()
DefaultAllowedOrigins == <<"*">>
DefaultAllowedMethods == "GET, POST, PUT, PATCH, DELETE, OPTIONS"
DefaultAllowedHeaders == "Content-Type, Authorization, X-Requested-With"
CorsMaxAge == "86400"

\* the resp.header.* meta the infrastructure blocks stage; "" and <<>> are unset
NoRespHeaders ==
    [x_content_type_options |-> "", x_frame_options |-> "", x_xss_protection |-> "",
     referrer_policy |-> "", content_security_policy |-> <<>>,
     strict_transport_security |-> "", permissions_policy |-> "",
     allow_origin |-> <<>>, allow_methods |-> "", allow_headers |-> "",
     allow_credentials |-> "", max_age |-> ""]

\* the Result_ of an infrastructure block
InfraNone == [action |-> "none", status |-> 0]
InfraContinue == [action |-> "continue", status |-> 0]
InfraRespond(status) == [action |-> "respond", status |-> status]
InfraError(status) == [action |-> "error", status |-> status]

\* the requests the chain is run on: http.method, msg.action(), msg.path(), Origin
StatsPath == "/_stats"
MonitoringPath == "/_monitoring"
ChainRequests ==
    [method : {"GET"}, action : {"retrieve"}, path : {"/admin"}, origin : {<<>>, <<"o">>}]
        \cup [method : {"GET"}, action : {"retrieve"}, path : {StatsPath, MonitoringPath},
              origin : {<<>>}]
        \cup [method : {"POST"}, action : {"create"}, path : {"/admin"}, origin : {<<>>}]
        \cup [method : {"PUT"}, action : {"update"}, path : {"/admin"}, origin : {<<>>}]
        \cup [method : {"DELETE"}, action : {"delete"}, path : {"/admin"}, origin : {<<"o">>}]
        \cup [method : {"OPTIONS"}, action : {""}, path : {"/admin"}, origin : {<<"o">>}]

\* the node configs of the infrastructure blocks
ChainConfigs ==
    {[csp |-> NoCfg, allowed_origins |-> NoCfg, readonly |-> NoCfg],
     [csp |-> NoCfg, allowed_origins |-> <<"x">>, readonly |-> <<"false">>]}
        \cup [csp : {<<"default-src 'none'">>}, allowed_origins : {<<"x", ",", " ", "o">>},
              readonly : {<<"true">>, <<"1">>}]

\* SecurityHeadersBlock::handle
SecurityHeaders(cfg, h) ==
    [h EXCEPT !.x_content_type_options = "nosniff",
              !.x_frame_options = "DENY",
              !.x_xss_protection = "1; mode=block",
              !.referrer_policy = "strict-origin-when-cross-origin",
              !.content_security_policy = IF cfg.csp # NoCfg THEN cfg.csp ELSE DefaultCsp,
              !.strict_transport_security = "max-age=31536000; includeSubDomains",
              !.permissions_policy = "camera=(), microphone=(), geolocation=()"]

\* CorsBlock::handle, lines 37-71: the CORS headers
CorsHeaders(cfg, origin, h) ==
    LET origins == IF cfg.allowed_origins # NoCfg THEN cfg.allowed_origins
                   ELSE DefaultAllowedOrigins
        pieces == Split(origins, ",")
        listed == \E k \in 1..Len(pieces) : Trim(pieces[k]) = origin
        credentials == origin # <<>> /\ origins # <<"*">> /\ listed
        allow == IF origin # <<>>
                 THEN IF origins = <<"*">> \/ listed THEN origin ELSE h.allow_origin
                 ELSE origins
    IN [h EXCEPT !.allow_origin = allow,
                 !.allow_methods = DefaultAllowedMethods,
                 !.allow_headers = DefaultAllowedHeaders,
                 !.allow_credentials = IF credentials THEN "true" ELSE @,
                 !.max_age = CorsMaxAge]

\* CorsBlock::handle, lines 73-78: an OPTIONS preflight is answered here
IsPreflight(method) == method = "OPTIONS"

\* ReadonlyGuardBlock::handle, lines 29-32: config "readonly", default enabled = false
Readonly(cfg) == cfg.readonly = <<"true">> \/ cfg.readonly = <<"1">>

\* ReadonlyGuardBlock::handle, line 39
IsWrite(action) == action = "create" \/ action = "update" \/ action = "delete"

\* MonitoringBlock::handle, line 51
IsStatsRequest(path) == path = StatsPath \/ path = MonitoringPath

(***************************************************************************)
(* The admin-pipe chain: chains/mod.rs                                     *)
(***************************************************************************)
\* ADMIN_PIPE_JSON over HTTP_INFRA_JSON: every node has one successor
AdminPipe ==
    <<"security-headers", "cors", "readonly-guard", "rate-limit", "monitoring", "auth", "iam">>

\* the config of the iam node of ADMIN_PIPE_JSON
AdminPipeRole == Admin

\* the worker thread that runs the request
Worker == 1

ChainIdle(req, cfg) ==
    [node |-> 1, status |-> "running", result |-> InfraNone, trace |-> <<>>,
     req |-> req, cfg |-> cfg, headers |-> NoRespHeaders, total_requests |-> 0]

\* the block the chain is at, while it runs
Running(block) == chain.status = "running" /\ AdminPipe[chain.node] = block

ChainInit ==
    /\ \E req \in ChainRequests, cfg \in ChainConfigs : chain = ChainIdle(req, cfg)
    /\ msg \in [cookie : {<<>>, ApiKeyToken}, authorization : {<<>>, Bearer \o JwtToken},
                meta : {NoMeta, [user_id |-> <<>>, user_email |-> <<"x">>, user_roles |-> Admin]}]
    /\ \E s \in Services : ctx = [services |-> s.services, database |-> s.database,
                                  crypto |-> s.crypto, role |-> AdminPipeRole,
                                  role_set |-> TRUE]
    /\ auth = AuthIdle
    /\ iam = IamIdle
    /\ rl_config \in [max_requests : {Unset, 0}, window_seconds : {Unset}]
    /\ buckets = [a \in Keys |-> NoBucket]
    /\ lock = 0
    /\ clock = 0
    /\ rl = [t \in Threads |-> IdleThread]
    /\ started = 0
    /\ win = [a \in Keys |-> NoWin]

\* SecurityHeadersBlock::handle
SecurityHeadersHandle ==
    /\ Running("security-headers") /\ chain.result = InfraNone
    /\ chain' = [chain EXCEPT !.headers = SecurityHeaders(chain.cfg, @),
                              !.result = InfraContinue]
    /\ UNCHANGED <<rlVars, webVars, authVars>>

\* CorsBlock::handle
CorsHandle ==
    /\ Running("cors") /\ chain.result = InfraNone
    /\ chain' = [chain EXCEPT !.headers = CorsHeaders(chain.cfg, chain.req.origin, @),
                              !.result = IF IsPreflight(chain.req.method)
                                         THEN InfraRespond(204) ELSE InfraContinue]
    /\ UNCHANGED <<rlVars, webVars, authVars>>

\* ReadonlyGuardBlock::handle
ReadonlyGuardHandle ==
    /\ Running("readonly-guard") /\ chain.result = InfraNone
    /\ chain' = [chain EXCEPT !.result = IF Readonly(chain.cfg) /\ IsWrite(chain.req.action)
                                         THEN InfraError(403) ELSE InfraContinue]
    /\ UNCHANGED <<rlVars, webVars, authVars>>

\* MonitoringBlock::handle
MonitoringHandle ==
    /\ Running("monitoring") /\ chain.result = InfraNone
    /\ chain' = IF IsStatsRequest(chain.req.path)
                THEN [chain EXCEPT !.result = InfraRespond(200)]
                ELSE [chain EXCEPT !.total_requests = @ + 1, !.result = InfraContinue]
    /\ UNCHANGED <<rlVars, webVars, authVars>>

\* RateLimitBlock::handle for the chain's request
ChainRateLimit ==
    /\ Running("rate-limit")
    /\ \/ rl[Worker].pc = "idle" /\ \E ip \in Keys : RLStart(Worker, ip)
       \/ RLLock(Worker)
       \/ RLEntry(Worker)
       \/ RLExpiry(Worker)
       \/ RLIncr(Worker)
       \/ RLCompare(Worker)
       \/ RLReturn(Worker)

\* AuthBlock::handle for the chain's request
ChainAuth == Running("auth") /\ AuthNext

\* IAMBlock::handle for the chain's request
ChainIam == Running("iam") /\ IamNext

\* what the block the chain is at has returned, "none" while it has not
CurrentAction ==
    LET block == AdminPipe[chain.node]
    IN IF block = "rate-limit"
       THEN IF rl[Worker].pc = "done" THEN rl[Worker].result.action ELSE "none"
       ELSE IF block = "auth" THEN IF auth.pc = "done" THEN auth.result.action ELSE "none"
       ELSE IF block = "iam" THEN IF iam.pc = "done" THEN iam.result.action ELSE "none"
       ELSE chain.result.action

\* the runtime's step between blocks, on_error: stop: the next node runs after a
\* continue, anything else a block returns ends the run
ChainAdvance ==
    /\ chain.status = "running"
    /\ CurrentAction # "none"
    /\ chain' = [chain EXCEPT
                    !.trace = Append(@, [block |-> AdminPipe[chain.node],
                                         action |-> CurrentAction]),
                    !.status = IF CurrentAction # "continue" THEN "stopped"
                               ELSE IF chain.node = Len(AdminPipe) THEN "finished"
                               ELSE "running",
                    !.node = IF CurrentAction = "continue" /\ chain.node < Len(AdminPipe)
                             THEN @ + 1 ELSE @,
                    !.result = InfraNone]
    /\ UNCHANGED <<rlVars, webVars, authVars>>

ChainNext ==
    \/ SecurityHeadersHandle
    \/ CorsHandle
    \/ ReadonlyGuardHandle
    \/ ChainRateLimit
    \/ MonitoringHandle
    \/ ChainAuth
    \/ ChainIam
    \/ ChainAdvance

(***************************************************************************)
(* Claims about the admin-pipe chain                                       *)
(***************************************************************************)
\* the request got past the last block, the role check
PastIam == chain.status = "finished"

\* the blocks before node k have all run and continued
ContinuedBefore(k) ==
    /\ Len(chain.trace) >= k - 1
    /\ \A j \in 1..(k - 1) :
          chain.trace[j] = [block |-> AdminPipe[j], action |-> "continue"]

\* auth.user_roles lists the role the chain requires
AdminListed ==
    LET pieces == Split(msg.meta.user_roles, ",")
    IN \E k \in 1..Len(pieces) : Trim(pieces[k]) = AdminPipeRole

\* C11: in the admin-pipe chain every result other than continue ends the run
\* (it is the last entry of the trace and no later block starts), a block
\* starts only after all blocks before it continued, and a request gets past
\* the role check only if the auth block validated a credential and published
\* its non-empty user_id and the role check found the role admin for it (in
\* the role store, or in auth.user_roles when the store lookup failed).
C11_FailureIsTerminal ==
    /\ \A k \in 1..Len(chain.trace) :
          /\ chain.trace[k].block = AdminPipe[k]
          /\ chain.trace[k].action # "continue"
                => k = Len(chain.trace) /\ chain.status = "stopped"
    /\ chain.status = "running" => ContinuedBefore(chain.node)
    /\ rl[Worker].pc # "idle" => ContinuedBefore(4)
    /\ chain.total_requests > 0 => ContinuedBefore(5)
    /\ auth.pc # "start" => ContinuedBefore(6)
    /\ iam.pc # "start"
          => /\ ContinuedBefore(7)
             /\ auth.result = Continue
             /\ auth.key_record.found \/ auth.claims.found
             /\ auth.user_id # <<>> /\ msg.meta.user_id = auth.user_id
    /\ PastIam
          => /\ ContinuedBefore(8)
             /\ iam.result = IamContinue
             /\ iam.required_role = Admin
             /\ msg.meta.user_id # <<>>
             /\ iam.lookup = "found" \/ (iam.lookup = "failed" /\ AdminListed)
    /\ chain.status = "stopped" /\ chain.trace[Len(chain.trace)].block # "iam"
          => iam.pc = "start" /\ iam.result = IamNoOutcome

\* a request that got past the role check on the role store's answer
C11_Witness ==
    /\ PastIam /\ iam.lookup = "found" /\ ~AdminListed
    /\ auth.validator = "api_key"

(***************************************************************************)
(* Specifications: one per block, the other blocks' state left alone       *)
(***************************************************************************)
RLOff ==
    /\ rl_config = [max_requests |-> Unset, window_seconds |-> Unset]
    /\ buckets = [a \in Keys |-> NoBucket]
    /\ lock = 0
    /\ clock = 0
    /\ rl = [t \in Threads |-> IdleThread]
    /\ started = 0
    /\ win = [a \in Keys |-> NoWin]

WebOff ==
    /\ fs = [p \in FsPaths |-> Absent]
    /\ web_config = [root |-> PMissing, prefix |-> <<>>, spa |-> FALSE, index_file |-> <<"a">>,
                     cache_max_age |-> DefaultCacheMaxAge,
                     immutable_max_age |-> DefaultImmutableMaxAge]
    /\ web_req = NoWebReq
    /\ web_resp = NoWebResp

ChainOff ==
    chain = [node |-> 1, status |-> "off", result |-> InfraNone, trace |-> <<>>,
             req |-> [method |-> "", action |-> "", path |-> "", origin |-> <<>>],
             cfg |-> [csp |-> NoCfg, allowed_origins |-> NoCfg, readonly |-> NoCfg],
             headers |-> NoRespHeaders, total_requests |-> 0]

AuthOff ==
    /\ msg = [cookie |-> <<>>, authorization |-> <<>>, meta |-> NoMeta]
    /\ ctx = [services |-> FALSE, database |-> FALSE, crypto |-> FALSE, role |-> <<>>,
              role_set |-> FALSE]
    /\ auth = AuthIdle
    /\ iam = IamIdle

InitRL == RLInit /\ WebOff /\ AuthOff /\ ChainOff
SpecRL == InitRL /\ [][RLNext]_vars

InitWeb == WebInit /\ RLOff /\ AuthOff /\ ChainOff
SpecWeb == InitWeb /\ [][WebNext]_vars

InitAuth == AuthInit /\ RLOff /\ WebOff /\ ChainOff
SpecAuth == InitAuth /\ [][AuthNext]_vars

InitIam == IamInit /\ RLOff /\ WebOff /\ ChainOff
SpecIam == InitIam /\ [][IamNext]_vars

InitChain == ChainInit /\ WebOff
SpecChain == InitChain /\ [][ChainNext]_vars

====
